---------------------------- MODULE Spec2Model ----------------------------
(***************************************************************************)
(* Model of dashboard/dashboard.py: a Streamlit script that is re-executed *)
(* top to bottom whenever one of its two date inputs changes.  One run     *)
(* loads the (cached) order table, filters it to the date window, computes *)
(* three KPI scalars, the monthly trend table and the RFM table with its   *)
(* quartile scores and segments.                                           *)
(*                                                                         *)
(* Time is counted in ticks; a calendar day has TicksPerDay ticks, tick 0  *)
(* of a day being midnight.  A calendar month has DaysPerMonth days.       *)
(* Payment values are whole numbers, so every sum and every quantile edge  *)
(* (kept multiplied by 4) is exact.                                        *)
(***************************************************************************)
EXTENDS Integers, Sequences, FiniteSets, TLC

VARIABLES cache, df, start_date, end_date, filtered_df,
          total_revenue, total_orders, total_customers,
          monthly, rfm, error, segment_pct, first_run, rerun_done

vars == <<cache, df, start_date, end_date, filtered_df,
          total_revenue, total_orders, total_customers,
          monthly, rfm, error, segment_pct, first_run, rerun_done>>

(***************************************************************************)
(* Bounds of the model.                                                    *)
(***************************************************************************)
MaxRows == 3
MaxCustomers == 4

(***************************************************************************)
(* The calendar, at the resolution of the model: pd.Timedelta(days=1) is   *)
(* TicksPerDay ticks, and a period of to_period("M") is DaysPerMonth days. *)
(***************************************************************************)
TicksPerDay == 2
DaysPerMonth == 2

(* The calendar dates a date input can be set to, and the purchase         *)
(* timestamps of the tables.                                               *)
Dates == 0..2

Timestamps == 0..(3 * TicksPerDay - 1)

(***************************************************************************)
(* Generic helpers over finite sets and sequences of integers.             *)
(***************************************************************************)
Range(s) == {s[i] : i \in DOMAIN s}

Min(S) == CHOOSE x \in S : \A y \in S : x <= y

Max(S) == CHOOSE x \in S : \A y \in S : y <= x

RECURSIVE SeqSum(_)
SeqSum(s) == IF s = <<>> THEN 0 ELSE Head(s) + SeqSum(Tail(s))

(* The elements of a set from the smallest up.                             *)
RECURSIVE Ascending(_)
Ascending(S) == IF S = {} THEN <<>>
                ELSE LET m == Min(S) IN <<m>> \o Ascending(S \ {m})

(* The elements of a set from the largest down.                            *)
RECURSIVE Descending(_)
Descending(S) == IF S = {} THEN <<>>
                 ELSE LET m == Max(S) IN <<m>> \o Descending(S \ {m})

(* groupby(...) sorts the group keys ascending (sort=True is the default). *)
GroupKeys(S) == Ascending(S)

(* The ascending order statistics of a column, duplicates kept.            *)
RECURSIVE SortValues(_)
SortValues(s) ==
    IF s = <<>> THEN <<>>
    ELSE LET m == Min(Range(s))
             i == CHOOSE j \in DOMAIN s : s[j] = m
             rest == [k \in 1..(Len(s) - 1) |-> IF k < i THEN s[k] ELSE s[k + 1]]
         IN  <<m>> \o SortValues(rest)

(***************************************************************************)
(* Dates, timestamps and periods.                                          *)
(***************************************************************************)
(* pd.to_datetime(date): midnight at the start of that calendar day.       *)
to_datetime(d) == d * TicksPerDay

(* st.date_input(label, timestamp): the calendar date of the timestamp.    *)
date_input(ts) == ts \div TicksPerDay

(* .dt.to_period("M"): the ordinal of the calendar month of a timestamp.   *)
to_period(ts) == (ts \div TicksPerDay) \div DaysPerMonth

(* Period.astype(str): the "YYYY-MM" label, kept as <<year, month>>.       *)
period_str(p) == <<2018 + (p \div 12), (p % 12) + 1>>

(***************************************************************************)
(* Column helpers.                                                         *)
(***************************************************************************)
Column(frame, c) == [i \in DOMAIN frame |-> frame[i][c]]

nunique(col) == Cardinality(Range(col))

(* A rerun that kept working on the frame the previous run had filtered.   *)
load_data_filtered == filtered_df

(* @st.cache_data load_data(): a rerun gets the table read by the first    *)
(* run, which st.cache_data keeps in `cache`.                              *)
load_data == cache

(* The boolean-mask filter of lines 96-99.                                 *)
filter_window(frame, s, e) ==
    SelectSeq(frame, LAMBDA r :
        /\ r.order_purchase_timestamp >= to_datetime(s)
        /\ r.order_purchase_timestamp <= to_datetime(e))

(***************************************************************************)
(* KPI section, lines 104-106.                                             *)
(***************************************************************************)
TotalRevenue(frame) == SeqSum(Column(frame, "payment_value"))

TotalOrders(frame) == nunique(Column(frame, "order_id"))

TotalCustomersRows(frame) == Len(frame)

TotalCustomers(frame) == nunique(Column(frame, "customer_unique_id"))

(***************************************************************************)
(* Tab 1, lines 136-143: the monthly trend table.                          *)
(***************************************************************************)
(* The aggregation counting rows ('count') where the code has 'nunique'.   *)
monthly_agg_count(group) ==
    [order_id      |-> Len(group),
     payment_value |-> SeqSum(Column(group, "payment_value"))]

(* .agg({'order_id': 'nunique', 'payment_value': 'sum'}) of one group.     *)
monthly_agg(group) ==
    [order_id      |-> nunique(Column(group, "order_id")),
     payment_value |-> SeqSum(Column(group, "payment_value"))]

(* Group keys in descending order.                                         *)
month_keys_desc(frame) ==
    Descending({to_period(frame[i].order_purchase_timestamp) : i \in DOMAIN frame})

(* The keys of groupby('order_month'), in the order the groups are output. *)
month_keys(frame) ==
    GroupKeys({to_period(frame[i].order_purchase_timestamp) : i \in DOMAIN frame})

Monthly(frame) ==
    LET keys == month_keys(frame)
    IN  [k \in DOMAIN keys |->
            LET group == SelectSeq(frame, LAMBDA r :
                             to_period(r.order_purchase_timestamp) = keys[k])
                agg   == monthly_agg(group)
            IN  [order_month   |-> period_str(keys[k]),
                 order_id      |-> agg.order_id,
                 payment_value |-> agg.payment_value]]

(***************************************************************************)
(* Tab 2, lines 183-205: the RFM table.                                    *)
(***************************************************************************)
(* filtered_df['order_purchase_timestamp'].max() + pd.Timedelta(days=1).   *)
snapshot_date(frame) ==
    Max(Range(Column(frame, "order_purchase_timestamp"))) + TicksPerDay

(* Timedelta.days: the whole days of a non-negative difference.            *)
days(delta) == delta \div TicksPerDay

(* groupby('customer_unique_id').agg(...).reset_index(): one row per       *)
(* customer, in ascending customer order, as Recency/Frequency/Monetary.   *)
RfmBase(frame) ==
    LET keys == GroupKeys(Range(Column(frame, "customer_unique_id")))
    IN  [k \in DOMAIN keys |->
            LET group == SelectSeq(frame, LAMBDA r :
                             r.customer_unique_id = keys[k])
            IN  [customer_unique_id |-> keys[k],
                 Recency   |-> days(snapshot_date(frame)
                     - Max(Range(Column(group, "order_purchase_timestamp")))),
                 Frequency |-> nunique(Column(group, "order_id")),
                 Monetary  |-> SeqSum(Column(group, "payment_value"))]]

(* Series.rank(method='first'): ascending ranks 1..n, equal values ranked  *)
(* in the order they appear.                                               *)
rank_first(col) ==
    [i \in DOMAIN col |->
        1 + Cardinality({j \in DOMAIN col :
                \/ col[j] < col[i]
                \/ (col[j] = col[i] /\ j < i)})]

(* Series.quantile([0, .25, .5, .75, 1]) with linear interpolation, each   *)
(* edge multiplied by 4: edge k lies at position (n-1)*k/4 of the sorted   *)
(* values.                                                                 *)
quantile_edges4(col) ==
    LET v == SortValues(col)
        n == Len(col)
    IN  [k \in 0..4 |->
            LET lo == ((n - 1) * k) \div 4
                r  == ((n - 1) * k) % 4
            IN  IF r = 0 THEN 4 * v[lo + 1]
                ELSE 4 * v[lo + 1] + r * (v[lo + 2] - v[lo + 1])]

(* The bin taken with the intervals closed on the left.                    *)
bin_of_left_closed(x4, edges) ==
    Cardinality({k \in 0..4 : edges[k] <= x4})

(* _bins_to_cuts with right=True, include_lowest=True: the 1-based bin of  *)
(* a value (times 4) is bins.searchsorted(x, side='left'), and the lowest  *)
(* edge itself belongs to bin 1.                                           *)
bin_of(x4, edges) ==
    IF x4 = edges[0] THEN 1
    ELSE Cardinality({k \in 0..4 : edges[k] < x4})

(* pd.qcut(col, 4, labels=labels): ValueError ("Bin edges must be unique") *)
(* when two quantile edges coincide, which includes the empty column       *)
(* (every edge is NaN); otherwise the label of each value's bin.  A bin    *)
(* outside 1..4 is NaN, written 0.                                         *)
qcut(col, labels) ==
    IF DOMAIN col = {} THEN [ok |-> FALSE, codes |-> <<>>]
    ELSE LET edges == quantile_edges4(col)
         IN  IF \E j, k \in 0..4 : j < k /\ edges[j] = edges[k]
             THEN [ok |-> FALSE, codes |-> <<>>]
             ELSE [ok |-> TRUE,
                   codes |-> [i \in DOMAIN col |->
                       LET b == bin_of(4 * col[i], edges)
                       IN  IF b \in 1..4 THEN labels[b] ELSE 0]]

(* Recency labels in the same direction as Frequency and Monetary.         *)
R_labels_ascending == <<1, 2, 3, 4>>

(* labels=[4,3,2,1] of line 193.                                           *)
R_labels == <<4, 3, 2, 1>>

(* labels=[1,2,3,4] of lines 194-195.                                      *)
FM_labels == <<1, 2, 3, 4>>

(* A rule that lets every R_score 4 customer be "Loyal".                   *)
segment_ignoring_F(row) ==
    IF row.R_score = 4 THEN "Loyal"
    ELSE IF row.R_score >= 3 THEN "Potential"
    ELSE "At Risk"

(* def segment(row), lines 197-203.                                        *)
segment(row) ==
    IF row.R_score = 4 /\ row.F_score >= 3 THEN "Loyal"
    ELSE IF row.R_score >= 3 THEN "Potential"
    ELSE "At Risk"

(* Lines 183-205.  The three qcut calls run in order; the first that       *)
(* raises ends the run with its ValueError, and no score or segment table  *)
(* is produced.                                                            *)
Rfm(frame) ==
    LET base == RfmBase(frame)
        R == qcut(Column(base, "Recency"), R_labels)
        F == qcut(rank_first(Column(base, "Frequency")), FM_labels)
        M == qcut(Column(base, "Monetary"), FM_labels)
    IN  IF ~R.ok \/ ~F.ok \/ ~M.ok
        THEN [error |-> "ValueError", table |-> <<>>]
        ELSE [error |-> "none",
              table |-> [i \in DOMAIN base |->
                  LET scored == [customer_unique_id |-> base[i].customer_unique_id,
                                 Recency   |-> base[i].Recency,
                                 Frequency |-> base[i].Frequency,
                                 Monetary  |-> base[i].Monetary,
                                 R_score   |-> R.codes[i],
                                 F_score   |-> F.codes[i],
                                 M_score   |-> M.codes[i]]
                  IN  [customer_unique_id |-> scored.customer_unique_id,
                       Recency   |-> scored.Recency,
                       Frequency |-> scored.Frequency,
                       Monetary  |-> scored.Monetary,
                       R_score   |-> scored.R_score,
                       F_score   |-> scored.F_score,
                       M_score   |-> scored.M_score,
                       Segment   |-> segment(scored)]]]

(* rfm['Segment'].value_counts(normalize=True).mul(100), lines 215-220:    *)
(* each segment that occurs, with its share kept as <<count, total>>       *)
(* (the percentage is 100 * count / total).                                *)
SegmentPct(table) ==
    [s \in {table[i].Segment : i \in DOMAIN table} |->
        <<Cardinality({i \in DOMAIN table : table[i].Segment = s}), Len(table)>>]

(***************************************************************************)
(* One execution of the script body, lines 96-220, on the loaded table and *)
(* the two date inputs.  filtered_df is the frame of lines 96-99; its      *)
(* order_month column of line 136 lives in Monthly.  When a qcut raises,   *)
(* the run ends at that line: the KPIs and the monthly table are on the    *)
(* page, the RFM table and the segment shares are not.                     *)
(***************************************************************************)
Script(data, s, e) ==
    LET filtered == filter_window(data, s, e)
        scored   == Rfm(filtered)
    IN  [filtered_df     |-> filtered,
         total_revenue   |-> TotalRevenue(filtered),
         total_orders    |-> TotalOrders(filtered),
         total_customers |-> TotalCustomers(filtered),
         monthly         |-> Monthly(filtered),
         rfm             |-> scored.table,
         error           |-> scored.error,
         segment_pct     |-> SegmentPct(scored.table)]

(***************************************************************************)
(* The tables main_data.csv may hold.  No aggregate depends on the order   *)
(* of the rows (groupby sorts its keys; sum and nunique ignore the order), *)
(* so each multiset of rows is read once, as the frame sorted by RowKey.   *)
(*   OrderTables: up to MaxRows payment rows of three orders; orders 1 and *)
(*     2 are customer 1's, order 3 is customer 2's, every row of order o   *)
(*     pays o.  The rows of one order may carry different timestamps, at   *)
(*     midnight or later in the day.                                       *)
(*   CustomerTables: up to MaxCustomers customers with one order of one    *)
(*     payment each, bought at midnight of any day, the customers numbered *)
(*     in the order of their payments.                                     *)
(***************************************************************************)
Row(o, c, ts, p) ==
    [order_id |-> o, customer_unique_id |-> c,
     order_purchase_timestamp |-> ts, payment_value |-> p]

RowKey(r) ==
    ((r.customer_unique_id * 100 + r.order_id) * 100
        + r.order_purchase_timestamp) * 100 + r.payment_value

OrderOwner == <<1, 1, 2>>

OrderRows == {Row(o, OrderOwner[o], ts, o) : o \in 1..3, ts \in Timestamps}

RECURSIVE SortedFrames(_, _)
SortedFrames(n, lo) ==
    IF n = 0 THEN {<<>>}
    ELSE UNION {{<<r>> \o t : t \in SortedFrames(n - 1, RowKey(r))} :
                    r \in {x \in OrderRows : RowKey(x) >= lo}}

OrderTables == UNION {SortedFrames(n, 0) : n \in 1..MaxRows}

CustomerTables ==
    UNION {{[c \in 1..n |-> Row(c, c, to_datetime(d[c]), p[c])] :
                d \in [1..n -> Dates],
                p \in {q \in [1..n -> 1..4] :
                          \A i \in 1..(n - 1) : q[i] <= q[i + 1]}} :
           n \in 1..MaxCustomers}

(***************************************************************************)
(* The first run: load_data() reads the table, the two date inputs start   *)
(* at the dates of the earliest and the latest purchase (lines 90-94).     *)
(* first_run and rerun_done are history variables: the window and the page *)
(* of the first run, and whether the script has been rerun since.          *)
(***************************************************************************)
FirstRun(data) ==
    LET ts == Range(Column(data, "order_purchase_timestamp"))
        s  == date_input(Min(ts))
        e  == date_input(Max(ts))
    IN  \E out \in {Script(data, s, e)} :
        /\ cache = data
        /\ df = data
        /\ start_date = s
        /\ end_date = e
        /\ filtered_df = out.filtered_df
        /\ total_revenue = out.total_revenue
        /\ total_orders = out.total_orders
        /\ total_customers = out.total_customers
        /\ monthly = out.monthly
        /\ rfm = out.rfm
        /\ error = out.error
        /\ segment_pct = out.segment_pct
        /\ first_run = [start_date |-> s, end_date |-> e,
                        shown |-> [f \in DOMAIN out \ {"filtered_df"} |-> out[f]]]
        /\ rerun_done = FALSE

Init == \E data \in OrderTables \cup CustomerTables : FirstRun(data)

(* A rerun of the whole script with the date inputs at s and e.            *)
Rerun(s, e) ==
    \E data \in {load_data} : \E out \in {Script(data, s, e)} :
        /\ df' = data
        /\ start_date' = s
        /\ end_date' = e
        /\ filtered_df' = out.filtered_df
        /\ total_revenue' = out.total_revenue
        /\ total_orders' = out.total_orders
        /\ total_customers' = out.total_customers
        /\ monthly' = out.monthly
        /\ rfm' = out.rfm
        /\ error' = out.error
        /\ segment_pct' = out.segment_pct
        /\ rerun_done' = TRUE
        /\ UNCHANGED <<cache, first_run>>

(* The user picks another start date in the sidebar (line 93).             *)
StartDateChanged(d) ==
    /\ d # start_date
    /\ Rerun(d, end_date)

(* The user picks another end date in the sidebar (line 94).               *)
EndDateChanged(d) ==
    /\ d # end_date
    /\ Rerun(start_date, d)

Next ==
    \/ \E d \in Dates : StartDateChanged(d)
    \/ \E d \in Dates : EndDateChanged(d)

Spec == Init /\ [][Next]_vars

(***************************************************************************)
(* Vocabulary of the properties, stated over sets of rows.                 *)
(***************************************************************************)
Segments == {"Loyal", "Potential", "At Risk"}

RECURSIVE SumOver(_, _)
SumOver(S, f) ==
    IF S = {} THEN 0
    ELSE LET x == CHOOSE y \in S : TRUE IN f[x] + SumOver(S \ {x}, f)

PurchaseDate(r) == r.order_purchase_timestamp \div TicksPerDay

PurchaseMonth(r) == PurchaseDate(r) \div DaysPerMonth

YearMonth(m) == <<2018 + (m \div 12), (m % 12) + 1>>

YearMonthBefore(a, b) == a[1] < b[1] \/ (a[1] = b[1] /\ a[2] < b[2])

InMonth(label) ==
    {i \in DOMAIN filtered_df : YearMonth(PurchaseMonth(filtered_df[i])) = label}

RowsOfCustomer(c) ==
    {i \in DOMAIN filtered_df : filtered_df[i].customer_unique_id = c}

CustomersInWindow ==
    {filtered_df[i].customer_unique_id : i \in DOMAIN filtered_df}

BucketOrderSum == SumOver(DOMAIN monthly, [k \in DOMAIN monthly |-> monthly[k].order_id])

OneMonthPerOrder ==
    \A i, j \in DOMAIN filtered_df :
        filtered_df[i].order_id = filtered_df[j].order_id
            => PurchaseMonth(filtered_df[i]) = PurchaseMonth(filtered_df[j])

ScoreGroup(score, v) == {i \in DOMAIN rfm : rfm[i][score] = v}

Balanced(score) ==
    /\ \A i \in DOMAIN rfm : rfm[i][score] \in 1..4
    /\ \A v \in 1..4 :
          Cardinality(ScoreGroup(score, v))
              \in {Len(rfm) \div 4, (Len(rfm) + 3) \div 4}

Distinct(metric) ==
    \A i, j \in DOMAIN rfm : i # j => rfm[i][metric] # rfm[j][metric]

SegmentCount(sgm) == IF sgm \in DOMAIN segment_pct THEN segment_pct[sgm][1] ELSE 0

ExpectedSegment(r, f) ==
    IF r = 4 /\ f >= 3 THEN "Loyal"
    ELSE IF r >= 3 THEN "Potential"
    ELSE "At Risk"

(***************************************************************************)
(* C1.  Every customer record carries the segment the rule gives for its   *)
(* R_score and F_score: "Loyal" exactly when R_score = 4 and F_score >= 3, *)
(* otherwise "Potential" exactly when R_score >= 3, otherwise "At Risk";   *)
(* the same holds of segment() on every point of the grid 1..4 x 1..4,     *)
(* whatever the M_score, and two records with equal R_score and F_score    *)
(* have the same segment.                                                  *)
(***************************************************************************)
C1_SegmentRule ==
    /\ \A r, f, m \in 1..4 :
          segment([R_score |-> r, F_score |-> f, M_score |-> m])
              = ExpectedSegment(r, f)
    /\ \A i \in DOMAIN rfm :
          /\ rfm[i].R_score \in 1..4
          /\ rfm[i].F_score \in 1..4
          /\ rfm[i].Segment = ExpectedSegment(rfm[i].R_score, rfm[i].F_score)
    /\ \A i, j \in DOMAIN rfm :
          (rfm[i].R_score = rfm[j].R_score /\ rfm[i].F_score = rfm[j].F_score)
              => rfm[i].Segment = rfm[j].Segment

C1_Witness ==
    /\ error = "none"
    /\ \A sgm \in Segments : \E i \in DOMAIN rfm : rfm[i].Segment = sgm
    /\ \E i, j \in DOMAIN rfm :
          /\ rfm[i].Segment = rfm[j].Segment
          /\ rfm[i].M_score # rfm[j].M_score

(***************************************************************************)
(* C2.  The filtered frame holds exactly the rows of the table whose       *)
(* purchase date lies between the start date and the end date, both dates  *)
(* included, whatever the time of day of the purchase.                     *)
(***************************************************************************)
C2_WindowOfCalendarDates ==
    filtered_df = SelectSeq(df, LAMBDA r :
                      start_date <= PurchaseDate(r) /\ PurchaseDate(r) <= end_date)

(***************************************************************************)
(* C3, as stated.  For any table and window, the order counts of the       *)
(* monthly buckets add up to total_orders.                                 *)
(***************************************************************************)
C3_BucketCountsSumToTotal == BucketOrderSum = total_orders

(***************************************************************************)
(* C3, as amended.  The order counts of the monthly buckets add up to      *)
(* total_orders whenever all filtered rows of one order identifier fall in *)
(* one calendar month.                                                     *)
(***************************************************************************)
C3_BucketCountsSumToTotalOneMonthPerOrder ==
    OneMonthPerOrder => BucketOrderSum = total_orders

C3_Witness ==
    /\ OneMonthPerOrder
    /\ Len(monthly) = 2
    /\ \E i, j \in DOMAIN filtered_df :
          i # j /\ filtered_df[i].order_id = filtered_df[j].order_id
    /\ total_orders = 2

(***************************************************************************)
(* C4.  A window without rows gives no monthly bucket, total orders 0 and  *)
(* total revenue 0, and the RFM part ends in InsufficientDataError without *)
(* any customer record.                                                    *)
(***************************************************************************)
C4_EmptyWindow ==
    filtered_df = <<>> =>
        /\ monthly = <<>>
        /\ total_orders = 0
        /\ total_revenue = 0
        /\ rfm = <<>>
        /\ error = "InsufficientDataError"

(***************************************************************************)
(* C5.  A window with only three customers ends in the quantile error and  *)
(* gives no score and no segment.  Any error of the run is accepted as the *)
(* quantile error here.                                                    *)
(***************************************************************************)
C5_ThreeCustomersFail ==
    total_customers = 3 => (error # "none" /\ rfm = <<>>)

C7_SegmentCompleteness ==
    error = "none" =>
        /\ {rfm[i].customer_unique_id : i \in DOMAIN rfm} = CustomersInWindow
        /\ Len(rfm) = Cardinality(CustomersInWindow)
        /\ \A i \in DOMAIN rfm : rfm[i].Segment \in Segments
        /\ DOMAIN segment_pct \subseteq Segments
        /\ SegmentCount("Loyal") + SegmentCount("Potential")
              + SegmentCount("At Risk") = total_customers

C7_Witness ==
    /\ error = "none"
    /\ total_customers = 2
    /\ Len(filtered_df) = 3
    /\ SegmentCount("Potential") = 1
    /\ SegmentCount("At Risk") = 1

(***************************************************************************)
(* C8.  What a run shows depends on the table and the current window only: *)
(* whenever the two date inputs are back at the dates of the first run,    *)
(* after any changes in between, the KPIs, the monthly buckets and the RFM *)
(* records are those of the first run; and no run changes the loaded       *)
(* table.                                                                  *)
(***************************************************************************)
SameWindowSamePage ==
    (start_date = first_run.start_date /\ end_date = first_run.end_date)
        => /\ first_run.shown.total_revenue = total_revenue
           /\ first_run.shown.total_orders = total_orders
           /\ first_run.shown.total_customers = total_customers
           /\ first_run.shown.monthly = monthly
           /\ first_run.shown.rfm = rfm
           /\ first_run.shown.error = error
           /\ first_run.shown.segment_pct = segment_pct

C8_PageIsFunctionOfTableAndWindow ==
    /\ []SameWindowSamePage
    /\ [][df' = df /\ cache' = cache]_vars

C8_Witness ==
    /\ rerun_done
    /\ start_date = first_run.start_date
    /\ end_date = first_run.end_date
    /\ Len(filtered_df) >= 1
    /\ Len(filtered_df) < Len(df)

(***************************************************************************)
(* C9.  For a window with rows, the monthly table has exactly one bucket   *)
(* per calendar month in which a filtered row was bought, in strictly      *)
(* ascending order of year and month; a bucket's order count is the number *)
(* of different order identifiers among its month's rows, its revenue the  *)
(* sum of payment_value over those rows; with a single bucket both equal   *)
(* the KPI scalars.                                                        *)
(***************************************************************************)
C9_MonthlyBuckets ==
    filtered_df # <<>> =>
        /\ {monthly[k].order_month : k \in DOMAIN monthly}
              = {YearMonth(PurchaseMonth(filtered_df[i])) : i \in DOMAIN filtered_df}
        /\ \A k, l \in DOMAIN monthly :
              k < l => YearMonthBefore(monthly[k].order_month, monthly[l].order_month)
        /\ \A k \in DOMAIN monthly :
              LET rows == InMonth(monthly[k].order_month)
              IN  /\ monthly[k].order_id
                        = Cardinality({filtered_df[i].order_id : i \in rows})
                  /\ monthly[k].payment_value
                        = SumOver(rows, [i \in DOMAIN filtered_df |->
                                            filtered_df[i].payment_value])
        /\ Len(monthly) = 1 =>
              /\ monthly[1].order_id = total_orders
              /\ monthly[1].payment_value = total_revenue

C9_Witness ==
    /\ Len(monthly) = 2
    /\ \E k \in DOMAIN monthly :
          /\ monthly[k].order_id = 1
          /\ Cardinality(InMonth(monthly[k].order_month)) = 2

(***************************************************************************)
(* C10.  Whenever scores are produced, a customer's Recency is the whole   *)
(* number of days from the customer's latest purchase in the window to the *)
(* snapshot, one day after the latest purchase in the window, so at least  *)
(* 1; a customer with a smaller Recency never has a smaller R_score, and   *)
(* the customers with the smallest Recency have R_score 4.                 *)
(***************************************************************************)
C10_RecencyAndRScore ==
    error = "none" =>
        LET last(S)  == CHOOSE t \in {filtered_df[i].order_purchase_timestamp : i \in S} :
                            \A i \in S : filtered_df[i].order_purchase_timestamp <= t
            snapshot == last(DOMAIN filtered_df) + TicksPerDay
        IN  /\ \A i \in DOMAIN rfm :
                  /\ rfm[i].Recency >= 1
                  /\ rfm[i].Recency * TicksPerDay
                        <= snapshot - last(RowsOfCustomer(rfm[i].customer_unique_id))
                  /\ (rfm[i].Recency + 1) * TicksPerDay
                        > snapshot - last(RowsOfCustomer(rfm[i].customer_unique_id))
            /\ \A i, j \in DOMAIN rfm :
                  rfm[i].Recency < rfm[j].Recency => rfm[i].R_score >= rfm[j].R_score
            /\ \A i \in DOMAIN rfm :
                  (\A j \in DOMAIN rfm : rfm[i].Recency <= rfm[j].Recency)
                      => rfm[i].R_score = 4

C10_Witness ==
    /\ error = "none"
    /\ \E i, j \in DOMAIN rfm :
          /\ rfm[i].Recency = 1
          /\ rfm[j].Recency = 3
          /\ rfm[i].R_score = 4
          /\ rfm[j].R_score = 1
    /\ \E i \in DOMAIN filtered_df : filtered_df[i].order_purchase_timestamp % TicksPerDay # 0

=============================================================================
